---- MODULE Spec2Model ----
(***************************************************************************)
(* Model of k8s-infra-offload:                                             *)
(*   pkg/netconf/sriov.go   DoSriovNetwork / configureSriovNamespace       *)
(*   healthserver           getCheck and the probes it aggregates          *)
(*                                                                         *)
(* The kernel is modelled as a table of network devices (namespace, name,  *)
(* admin state, MTU, addresses, routes).  Every netlink / ns library call  *)
(* of the source is one atomic action that either succeeds, fails because  *)
(* the kernel state forces it to (no such device, name already taken), or  *)
(* fails with an injected errno.                                           *)
(***************************************************************************)
EXTENDS Integers, Sequences, FiniteSets, TLC

\* ---------------------------------------------------------------- bounds
MaxRuns == 2        \* invocations of DoSriovNetwork per caller
MaxAddrs == 2       \* longest in.ContainerIps
MaxRoutes == 1      \* longest in.ContainerRoutes
MaxRequests == 2    \* requests the /check handler receives
MaxInflight == 2    \* connections the HTTP server has in flight

\* ------------------------------------------------------------ the world
HostNs == "host"
NetNs == {"ns1", "ns2"}              \* namespaces that exist besides the host's
\* values of in.Netns a single caller passes; "nopath" does not exist
NsPaths == {"ns1", "nopath"}
Devs == {"d1", "d2"}
SrcNames == {"vf0", "vf1"}           \* values of res.InterfaceName
PodNames == {"net1", "vf0"}          \* values of in.InterfaceName
Names == SrcNames \cup PodNames
Errnos == {"EPERM", "EBUSY"}         \* errors a fault-injected call returns
HostMtu == 1400                      \* MTU the devices carry before any request
ReqMtus == {0, 1500}                 \* values of in.Settings.Mtu

\* ---- health server
StatusOK == 200                      \* http.StatusOK
StatusInternalServerError == 500     \* http.StatusInternalServerError
ServerStatusOK == "OK"               \* types.ServerStatusOK
ServerStatuses == {"OK", "STOPPED"}  \* values of types.ServiceServerStatus
\* healthpb.HealthCheckResponse_ServingStatus
ServingStatuses == {"UNKNOWN", "SERVING", "NOT_SERVING", "SERVICE_UNKNOWN"}

ShutdownTimeout == 5                 \* seconds, context.WithTimeout in StopServer
ErrServerClosed == "ErrServerClosed" \* http.ErrServerClosed
\* errors ListenAndServe returns other than http.ErrServerClosed
ServeErrors == {"EADDRINUSE", "EMFILE"}
ShutdownResults == {"nil", "DeadlineExceeded"}

NoNs == "none"
NoLink == [dev |-> "none", ns |-> "none"]
NoErr == [ns |-> FALSE, wrap |-> "", index |-> -1, cause |-> "nil"]

\* An error value: the errno the failing call returned, the fmt.Errorf prefix
\* put in front of it, the list index a bulk step attaches, and whether
\* newNsError wrapped it.
RawErr(e) == [ns |-> FALSE, wrap |-> "", index |-> -1, cause |-> e]

\* mutant: the message is built from the cause alone, the index is lost
C13_Mut_WrapLosesIndex(msg, e) == [RawErr(e.cause) EXCEPT !.wrap = msg]

\* fmt.Errorf("<msg>: %w", err)
Wrapf(msg, e) == [e EXCEPT !.wrap = msg]

\* newNsError(err): marks the error as raised after the namespace move
newNsError(e) == [e EXCEPT !.ns = TRUE]

\* in *pb.AddRequest together with res *types.InterfaceInfo
Requests ==
    [netns : NsPaths, src : SrcNames, name : PodNames, mtu : ReqMtus,
     ips : {[i \in 1..n |-> i] : n \in 0..MaxAddrs},
     routes : {[i \in 1..n |-> i] : n \in 0..MaxRoutes}]

NoReq == [netns |-> "nopath", src |-> "vf0", name |-> "net1", mtu |-> 0,
          ips |-> << >>, routes |-> << >>]

VARIABLES
    procs,      \* the callers (goroutines) that invoke DoSriovNetwork
    dev,        \* kernel: device -> [ns, name, up, mtu, addrs, routes]
    nsOpen,     \* caller -> number of namespace handles opened and not closed
    pc,         \* caller -> position in DoSriovNetwork
    req,        \* caller -> the request of the current invocation
    nn,         \* caller -> namespace the handle nn refers to
    linkObj,    \* caller -> handle resolved at line 36 (host namespace)
    inLink,     \* caller -> handle re-fetched at line 68 (shadows linkObj)
    ctx,        \* caller -> namespace the calling thread is bound to
    savedNs,    \* caller -> namespace WithNetNSPath restores on leaving
    err,        \* caller -> error value being returned (NoErr: nil)
    failed,     \* caller -> the call that failed in this invocation
    idx,        \* caller -> loop index of setLinkAddress / setupPodRoute
    calls,      \* caller -> the calls issued by this invocation, in order
    runs,       \* caller -> invocations started
    dev0,       \* caller -> the device table when the invocation started
    last,       \* caller -> error and failed call of the previous invocation
    \* ---- health server
    ServiceServerStatus,  \* types.ServiceServerStatus, written elsewhere
    hpc,        \* check getCheck is at: idle, infra, cni, flag, done
    hsub,       \* position inside checkGrpcServerStatus: dial, check, ret
    conn,       \* conn of the running probe: nil, open, closed
    dialErr,    \* whether grpcDial returned an error
    resp,       \* outcome of the health Check call of the running probe
    closes,     \* conn.Close calls of the running probe
    hlog,       \* the checks performed for the current request, in order
    written,    \* status codes written with w.WriteHeader for the request
    nreq,       \* requests received
    \* ---- health server lifecycle
    tomb,       \* the tomb handed to Start: alive, dying
    spc,        \* position of Start: init, wait, stopping, returned
    gpc,        \* position of the goroutine running serve
    srv,        \* the HTTP server: new, serving, failed, closed
    lasRet,     \* what s.srv.ListenAndServe returned
    serveRet,   \* what serve returned
    warned,     \* whether the goroutine logged the warning of line 153
    shutdowns,  \* calls of s.srv.Shutdown, each with the timeout of its context
    shutdownRet,\* what s.srv.Shutdown returned
    startRet,   \* what Start returned
    inflight    \* connections the HTTP server is serving

mvars == <<procs, dev, nsOpen, pc, req, nn, linkObj, inLink, ctx, savedNs, err,
           failed, idx, calls, runs, dev0, last>>

hvars == <<ServiceServerStatus, hpc, hsub, conn, dialErr, resp, closes, hlog,
           written, nreq>>

svars == <<tomb, spc, gpc, srv, lasRet, serveRet, warned, shutdowns, shutdownRet,
           startRet, inflight>>

vars == <<mvars, hvars, svars>>

\* ------------------------------------------------------- kernel helpers
\* mutant: the lookup ignores the namespace of the calling thread
C7_Mut_AnyNamespace(c, n) == {d \in Devs : dev[d].name = n}

\* netlink looks a name up in the namespace the calling thread is bound to
ByName(c, n) == {d \in Devs : dev[d].ns = c /\ dev[d].name = n}

\* A handle (netlink.Link) names its device by index, and netlink sends the
\* request into the namespace of the calling thread: the call finds the device
\* only when that is the namespace the device is in.  The device keeps its
\* index across a move, so the handle of line 36 still names it afterwards.
Reaches(h, c) == h.dev \in Devs /\ dev[h.dev].ns = c

NameTaken(c, n, d) == \E o \in Devs \ {d} : dev[o].ns = c /\ dev[o].name = n

Call(op, h, c, ok, i) == [op |-> op, via |-> h, ctx |-> c, ok |-> ok, index |-> i]

Issue(p, op, h, ok, i) ==
    calls' = [calls EXCEPT ![p] = Append(@, Call(op, h, ctx[p], ok, i))]

\* mutant: a failed call is issued again instead of returning
C15_Mut_RetryOnError(p, e, step) ==
    /\ err' = [err EXCEPT ![p] = e]
    /\ failed' = [failed EXCEPT ![p] = step]
    /\ UNCHANGED pc

\* return err from DoSriovNetwork
Return(p, e, step) ==
    /\ err' = [err EXCEPT ![p] = e]
    /\ failed' = [failed EXCEPT ![p] = step]
    /\ pc' = [pc EXCEPT ![p] = "done"]

\* return err from the callback handed to ns.WithNetNSPath
CbReturn(p, e, step) ==
    /\ err' = [err EXCEPT ![p] = e]
    /\ failed' = [failed EXCEPT ![p] = step]
    /\ pc' = [pc EXCEPT ![p] = "leave"]

Goto(p, l) == pc' = [pc EXCEPT ![p] = l]

\* ----------------------------------------------------------------- Init
\* every caller idle in the host namespace, the gateway and the server not
\* yet started
Quiet ==
    /\ nsOpen = [p \in procs |-> 0]
    /\ pc = [p \in procs |-> "idle"]
    /\ req = [p \in procs |-> NoReq]
    /\ nn = [p \in procs |-> NoNs]
    /\ linkObj = [p \in procs |-> NoLink]
    /\ inLink = [p \in procs |-> NoLink]
    /\ ctx = [p \in procs |-> HostNs]
    /\ savedNs = [p \in procs |-> HostNs]
    /\ err = [p \in procs |-> NoErr]
    /\ failed = [p \in procs |-> "none"]
    /\ idx = [p \in procs |-> 0]
    /\ calls = [p \in procs |-> << >>]
    /\ runs = [p \in procs |-> 0]
    /\ dev0 = [p \in procs |-> dev]
    /\ last = [p \in procs |-> [run |-> FALSE, err |-> NoErr, failed |-> "none"]]
    /\ ServiceServerStatus = ServerStatusOK
    /\ hpc = "idle"
    /\ hsub = "-"
    /\ conn = "nil"
    /\ dialErr = FALSE
    /\ resp = "none"
    /\ closes = 0
    /\ hlog = << >>
    /\ written = << >>
    /\ nreq = 0
    /\ tomb = "alive"
    /\ spc = "init"
    /\ gpc = "none"
    /\ srv = "new"
    /\ lasRet = "none"
    /\ serveRet = "none"
    /\ warned = FALSE
    /\ shutdowns = << >>
    /\ shutdownRet = "none"
    /\ startRet = "none"
    /\ inflight = 0

Init ==
    /\ procs = {1}
    /\ \E loc \in {HostNs, "ns1"} :
         dev = [d \in Devs |->
                  IF d = "d1"
                  THEN [ns |-> HostNs, name |-> "vf0", up |-> TRUE, mtu |-> HostMtu,
                        addrs |-> {}, routes |-> {}]
                  ELSE [ns |-> loc, name |-> IF loc = HostNs THEN "vf1" ELSE "net1",
                        up |-> (loc # HostNs), mtu |-> HostMtu,
                        addrs |-> {}, routes |-> {}]]
    /\ Quiet

\* -------------------------------------------------------------- actions
\* The caller invokes DoSriovNetwork(in, res); after a return it may invoke it
\* again with the same request (a retry).
Invoke(p, r) ==
    /\ pc[p] \in {"idle", "done"}
    /\ runs[p] < MaxRuns
    /\ pc[p] = "done" => r = req[p]
    /\ runs' = [runs EXCEPT ![p] = @ + 1]
    /\ last' = [last EXCEPT ![p] =
                  IF pc[p] = "done"
                  THEN [run |-> TRUE, err |-> err[p], failed |-> failed[p]]
                  ELSE @]
    /\ req' = [req EXCEPT ![p] = r]
    /\ nn' = [nn EXCEPT ![p] = NoNs]
    /\ linkObj' = [linkObj EXCEPT ![p] = NoLink]
    /\ inLink' = [inLink EXCEPT ![p] = NoLink]
    /\ err' = [err EXCEPT ![p] = NoErr]
    /\ failed' = [failed EXCEPT ![p] = "none"]
    /\ idx' = [idx EXCEPT ![p] = 0]
    /\ calls' = [calls EXCEPT ![p] = << >>]
    /\ dev0' = [dev0 EXCEPT ![p] = dev]
    /\ pc' = [pc EXCEPT ![p] = "GetNS"]
    /\ UNCHANGED <<procs, dev, nsOpen, ctx, savedNs, hvars, svars>>

\* mutant: the error of ns.GetNS is not checked
C3_Mut_NoNsCheck(path) == TRUE

\* ns.GetNS succeeds only on the path of an existing namespace
NsResolves(path) == path \in NetNs

\* nn, err := ns.GetNS(in.GetNetns())
GetNS(p) ==
    /\ pc[p] = "GetNS"
    /\ \/ /\ NsResolves(req[p].netns)
          /\ Issue(p, "GetNS", NoLink, TRUE, -1)
          /\ nn' = [nn EXCEPT ![p] = req[p].netns]
          /\ nsOpen' = [nsOpen EXCEPT ![p] = @ + 1]
          /\ Goto(p, "LinkByName")
          /\ UNCHANGED <<err, failed>>
       \/ /\ \E e \in (IF NsResolves(req[p].netns) THEN Errnos ELSE {"ENOENT"}) :
               Return(p, RawErr(e), "GetNS")
          /\ Issue(p, "GetNS", NoLink, FALSE, -1)
          /\ UNCHANGED <<nn, nsOpen>>
    /\ UNCHANGED <<procs, dev, req, linkObj, inLink, ctx, savedNs, idx, runs, dev0, last,
                 hvars, svars>>

\* linkObj, err := netlink.LinkByName(res.InterfaceName)
LinkByName(p) ==
    /\ pc[p] = "LinkByName"
    /\ \/ /\ \E d \in ByName(ctx[p], req[p].src) :
               linkObj' = [linkObj EXCEPT ![p] = [dev |-> d, ns |-> ctx[p]]]
          /\ Issue(p, "LinkByName", NoLink, TRUE, -1)
          /\ Goto(p, "LinkSetDown")
          /\ UNCHANGED <<err, failed>>
       \/ /\ \E e \in (IF ByName(ctx[p], req[p].src) # {} THEN Errnos
                       ELSE {"LinkNotFound"}) :
               Return(p, RawErr(e), "LinkByName")
          /\ Issue(p, "LinkByName", NoLink, FALSE, -1)
          /\ UNCHANGED linkObj
    /\ UNCHANGED <<procs, dev, nsOpen, req, nn, inLink, ctx, savedNs, idx, runs, dev0,
                 last, hvars, svars>>

\* what a call on handle h fails with: an injected errno, or ENODEV when the
\* handle does not reach its device from the calling thread's namespace
Faults(h, c) == IF Reaches(h, c) THEN Errnos ELSE {"ENODEV"}

\* variables no step of an invocation changes
fixed == <<procs, req, runs, dev0, last, hvars, svars>>

\* mutant: the MTU block is skipped
C1_Mut_SkipMtu(r) == "LinkSetNsFd"

\* mutant: the MTU is set without the mtu > 0 test
C6_Mut_AlwaysMtu(r) == "LinkSetMTU"

\* if in.GetSettings().Mtu > 0: the step that follows LinkSetDown
AfterSetDown(r) == IF r.mtu > 0 THEN "LinkSetMTU" ELSE "LinkSetNsFd"

\* mutant: the link is not set down before the move
C20_Mut_NoQuiesce(p) ==
    /\ pc[p] = "LinkSetDown"
    /\ LET h == linkObj[p] IN
       \/ /\ Reaches(h, ctx[p])
          /\ Issue(p, "LinkSetDown", h, TRUE, -1)
          /\ Goto(p, AfterSetDown(req[p]))
          /\ UNCHANGED <<dev, err, failed>>
       \/ /\ \E e \in Faults(h, ctx[p]) : Return(p, RawErr(e), "LinkSetDown")
          /\ Issue(p, "LinkSetDown", h, FALSE, -1)
          /\ UNCHANGED dev
    /\ UNCHANGED <<fixed, nsOpen, nn, linkObj, inLink, ctx, savedNs, idx>>

\* if err = netlink.LinkSetDown(linkObj); err != nil { return err }
LinkSetDown(p) ==
    /\ pc[p] = "LinkSetDown"
    /\ LET h == linkObj[p] IN
       \/ /\ Reaches(h, ctx[p])
          /\ dev' = [dev EXCEPT ![h.dev].up = FALSE]
          /\ Issue(p, "LinkSetDown", h, TRUE, -1)
          /\ Goto(p, AfterSetDown(req[p]))
          /\ UNCHANGED <<err, failed>>
       \/ /\ \E e \in Faults(h, ctx[p]) : Return(p, RawErr(e), "LinkSetDown")
          /\ Issue(p, "LinkSetDown", h, FALSE, -1)
          /\ UNCHANGED dev
    /\ UNCHANGED <<fixed, nsOpen, nn, linkObj, inLink, ctx, savedNs, idx>>

\* if in.GetSettings().Mtu > 0 { netlink.LinkSetMTU(linkObj, mtu) }
LinkSetMTU(p) ==
    /\ pc[p] = "LinkSetMTU"
    /\ LET h == linkObj[p] IN
       \/ /\ Reaches(h, ctx[p])
          /\ dev' = [dev EXCEPT ![h.dev].mtu = req[p].mtu]
          /\ Issue(p, "LinkSetMTU", h, TRUE, -1)
          /\ Goto(p, "LinkSetNsFd")
          /\ UNCHANGED <<err, failed>>
       \/ /\ \E e \in Faults(h, ctx[p]) : Return(p, RawErr(e), "LinkSetMTU")
          /\ Issue(p, "LinkSetMTU", h, FALSE, -1)
          /\ UNCHANGED dev
    /\ UNCHANGED <<fixed, nsOpen, nn, linkObj, inLink, ctx, savedNs, idx>>

\* if err = netlink.LinkSetNsFd(linkObj, int(nn.Fd())); err != nil { return err }
\* The kernel refuses the move when the target namespace already holds a
\* device of that name.  The move itself changes the namespace only: the
\* admin state is what LinkSetDown left.
MoveFaults(h, c, target) ==
    IF ~Reaches(h, c) THEN {"ENODEV"}
    ELSE IF NameTaken(target, dev[h.dev].name, h.dev) THEN {"EEXIST"}
    ELSE Errnos

LinkSetNsFd(p) ==
    /\ pc[p] = "LinkSetNsFd"
    /\ LET h == linkObj[p] IN
       \/ /\ Reaches(h, ctx[p])
          /\ ~NameTaken(nn[p], dev[h.dev].name, h.dev)
          /\ dev' = [dev EXCEPT ![h.dev].ns = nn[p]]
          /\ Issue(p, "LinkSetNsFd", h, TRUE, -1)
          /\ Goto(p, "WithNetNSPath")
          /\ UNCHANGED <<err, failed>>
       \/ /\ \E e \in MoveFaults(h, ctx[p], nn[p]) :
               Return(p, RawErr(e), "LinkSetNsFd")
          /\ Issue(p, "LinkSetNsFd", h, FALSE, -1)
          /\ UNCHANGED dev
    /\ UNCHANGED <<fixed, nsOpen, nn, linkObj, inLink, ctx, savedNs, idx>>

\* mutant: the callback's result is wrapped without the nil test
C5_Mut_AlwaysWrap(e) == newNsError(e)

\* return newNsError(err) / return nil, lines 56-59
Result(e) == IF e = NoErr THEN NoErr ELSE newNsError(e)

\* ns.WithNetNSPath(in.Netns, func ...): opens the path again, binds the
\* calling thread to that namespace and runs the callback; when it cannot
\* bind, the callback does not run.
\* mutant: setns binds every thread of the process, not the calling one
C14_Mut_ProcessWideSetns(p, target) == [q \in procs |-> target]

\* netns.Set on the calling thread, which ns.WithNetNSPath locks to the
\* goroutine: only the caller's binding changes
SetNs(p, target) == [ctx EXCEPT ![p] = target]

WithNetNSPath(p) ==
    /\ pc[p] = "WithNetNSPath"
    /\ \/ /\ NsResolves(req[p].netns)
          /\ savedNs' = [savedNs EXCEPT ![p] = ctx[p]]
          /\ ctx' = SetNs(p, req[p].netns)
          /\ Issue(p, "WithNetNSPath", NoLink, TRUE, -1)
          /\ Goto(p, "LinkSetName")
          /\ UNCHANGED <<err, failed>>
       \/ /\ \E e \in Errnos : Return(p, Result(RawErr(e)), "WithNetNSPath")
          /\ Issue(p, "WithNetNSPath", NoLink, FALSE, -1)
          /\ UNCHANGED <<ctx, savedNs>>
    /\ UNCHANGED <<fixed, dev, nsOpen, nn, linkObj, inLink, idx>>

\* netlink.LinkSetName(linkObj, in.InterfaceName): linkObj is the parameter of
\* configureSriovNamespace, the handle resolved at line 36
RenameHandle(p) == linkObj[p]

RenameFaults(h, c, n) ==
    IF ~Reaches(h, c) THEN {"ENODEV"}
    ELSE IF NameTaken(c, n, h.dev) THEN {"EEXIST"}
    ELSE Errnos

LinkSetName(p) ==
    /\ pc[p] = "LinkSetName"
    /\ LET h == RenameHandle(p) IN
       \/ /\ Reaches(h, ctx[p])
          /\ ~NameTaken(ctx[p], req[p].name, h.dev)
          /\ dev' = [dev EXCEPT ![h.dev].name = req[p].name]
          /\ Issue(p, "LinkSetName", h, TRUE, -1)
          /\ Goto(p, "ReLinkByName")
          /\ UNCHANGED <<err, failed>>
       \/ /\ \E e \in RenameFaults(h, ctx[p], req[p].name) :
               CbReturn(p, Wrapf("cannot set link name", RawErr(e)), "LinkSetName")
          /\ Issue(p, "LinkSetName", h, FALSE, -1)
          /\ UNCHANGED dev
    /\ UNCHANGED <<fixed, nsOpen, nn, linkObj, inLink, ctx, savedNs, idx>>

\* linkObj, err := netlink.LinkByName(in.InterfaceName)   (re-fetch, line 68)
ReLinkByName(p) ==
    /\ pc[p] = "ReLinkByName"
    /\ \/ /\ \E d \in ByName(ctx[p], req[p].name) :
               inLink' = [inLink EXCEPT ![p] = [dev |-> d, ns |-> ctx[p]]]
          /\ Issue(p, "ReLinkByName", NoLink, TRUE, -1)
          /\ Goto(p, "setLinkAddress")
          /\ UNCHANGED <<err, failed>>
       \/ /\ \E e \in (IF ByName(ctx[p], req[p].name) # {} THEN Errnos
                       ELSE {"LinkNotFound"}) :
               CbReturn(p, RawErr(e), "ReLinkByName")
          /\ Issue(p, "ReLinkByName", NoLink, FALSE, -1)
          /\ UNCHANGED inLink
    /\ UNCHANGED <<fixed, dev, nsOpen, nn, linkObj, ctx, savedNs, idx>>

\* mutant: the re-fetched handle is not the one used
C2_Mut_StaleHandle(p) == linkObj[p]

\* the handle the callback uses after the re-fetch (the shadowing linkObj)
ConfigHandle(p) == inLink[p]

\* setLinkAddress(linkObj, in.ContainerIps): one AddrAdd per entry, in order;
\* the first failure ends the loop and reports the entry's index
IndexedErr(e, i) == [RawErr(e) EXCEPT !.index = i]

setLinkAddress(p) ==
    /\ pc[p] = "setLinkAddress"
    /\ LET h == ConfigHandle(p)
           ips == req[p].ips IN
       \/ /\ idx[p] = Len(ips)
          /\ idx' = [idx EXCEPT ![p] = 0]
          /\ Goto(p, "LinkSetUp")
          /\ UNCHANGED <<dev, calls, err, failed>>
       \/ /\ idx[p] < Len(ips)
          /\ Reaches(h, ctx[p])
          /\ dev' = [dev EXCEPT ![h.dev].addrs = @ \cup {ips[idx[p] + 1]}]
          /\ Issue(p, "AddrAdd", h, TRUE, idx[p])
          /\ idx' = [idx EXCEPT ![p] = @ + 1]
          /\ UNCHANGED <<pc, err, failed>>
       \/ /\ idx[p] < Len(ips)
          /\ \E e \in Faults(h, ctx[p]) :
               CbReturn(p, Wrapf("cannot set link address", IndexedErr(e, idx[p])),
                        "AddrAdd")
          /\ Issue(p, "AddrAdd", h, FALSE, idx[p])
          /\ UNCHANGED <<dev, idx>>
    /\ UNCHANGED <<fixed, nsOpen, nn, linkObj, inLink, ctx, savedNs>>

\* if err = netlink.LinkSetUp(linkObj); err != nil { ... "cannot set link up" }
LinkSetUp(p) ==
    /\ pc[p] = "LinkSetUp"
    /\ LET h == ConfigHandle(p) IN
       \/ /\ Reaches(h, ctx[p])
          /\ dev' = [dev EXCEPT ![h.dev].up = TRUE]
          /\ Issue(p, "LinkSetUp", h, TRUE, -1)
          /\ Goto(p, "setupPodRoute")
          /\ UNCHANGED <<err, failed>>
       \/ /\ \E e \in Faults(h, ctx[p]) :
               CbReturn(p, Wrapf("cannot set link up", RawErr(e)), "LinkSetUp")
          /\ Issue(p, "LinkSetUp", h, FALSE, -1)
          /\ UNCHANGED dev
    /\ UNCHANGED <<fixed, nsOpen, nn, linkObj, inLink, ctx, savedNs, idx>>

\* setupPodRoute(linkObj, in.ContainerRoutes): one RouteAdd per entry, in
\* order; the first failure ends the loop and reports the entry's index
setupPodRoute(p) ==
    /\ pc[p] = "setupPodRoute"
    /\ LET h == ConfigHandle(p)
           rts == req[p].routes IN
       \/ /\ idx[p] = Len(rts)
          /\ idx' = [idx EXCEPT ![p] = 0]
          /\ Goto(p, "leave")
          /\ UNCHANGED <<dev, calls, err, failed>>
       \/ /\ idx[p] < Len(rts)
          /\ Reaches(h, ctx[p])
          /\ dev' = [dev EXCEPT ![h.dev].routes = @ \cup {rts[idx[p] + 1]}]
          /\ Issue(p, "RouteAdd", h, TRUE, idx[p])
          /\ idx' = [idx EXCEPT ![p] = @ + 1]
          /\ UNCHANGED <<pc, err, failed>>
       \/ /\ idx[p] < Len(rts)
          /\ \E e \in Faults(h, ctx[p]) :
               CbReturn(p, Wrapf("cannot setup routes", IndexedErr(e, idx[p])),
                        "RouteAdd")
          /\ Issue(p, "RouteAdd", h, FALSE, idx[p])
          /\ UNCHANGED <<dev, idx>>
    /\ UNCHANGED <<fixed, nsOpen, nn, linkObj, inLink, ctx, savedNs>>

\* mutant: the namespace is restored on the success path only
C9_Mut_NoRestoreOnError(p) == IF err[p] = NoErr THEN savedNs[p] ELSE ctx[p]

\* The callback has returned: WithNetNSPath binds the calling thread to the
\* namespace it came from and hands the callback's error to DoSriovNetwork,
\* which returns newNsError(err) or nil.
Restored(p) == savedNs[p]

\* mutant: a failed callback moves the device back to the namespace it came from
C4_Mut_Rollback(p) ==
    /\ pc[p] = "leave"
    /\ ctx' = [ctx EXCEPT ![p] = Restored(p)]
    /\ err' = [err EXCEPT ![p] = Result(err[p])]
    /\ dev' = IF err[p] = NoErr THEN dev
              ELSE [dev EXCEPT ![linkObj[p].dev].ns = savedNs[p]]
    /\ Issue(p, "LeaveNs", NoLink, TRUE, -1)
    /\ Goto(p, "done")
    /\ UNCHANGED <<fixed, nsOpen, nn, linkObj, inLink, savedNs, failed, idx>>

LeaveNs(p) ==
    /\ pc[p] = "leave"
    /\ ctx' = SetNs(p, Restored(p))
    /\ err' = [err EXCEPT ![p] = Result(err[p])]
    /\ Issue(p, "LeaveNs", NoLink, TRUE, -1)
    /\ Goto(p, "done")
    /\ UNCHANGED <<fixed, dev, nsOpen, nn, linkObj, inLink, savedNs, failed, idx>>

\* ======================================================================
\* Health server: getCheck and the checks it aggregates
\* ======================================================================
\* an inbound GET /check: the handler starts with the infra manager probe
Request ==
    /\ hpc \in {"idle", "done"}
    /\ nreq < MaxRequests
    /\ nreq' = nreq + 1
    /\ hpc' = "infra"
    /\ hsub' = "dial"
    /\ conn' = "nil"
    /\ dialErr' = FALSE
    /\ resp' = "none"
    /\ closes' = 0
    /\ hlog' = << >>
    /\ written' = << >>
    /\ UNCHANGED <<ServiceServerStatus, mvars, svars>>

\* conn, err := grpcDial(target, ...): a nil error comes with a connection;
\* an error may come with or without one
ProbeDial ==
    /\ hpc \in {"infra", "cni"}
    /\ hsub = "dial"
    /\ \E c \in {"nil", "open"}, e \in BOOLEAN :
         /\ ~e => c = "open"
         /\ conn' = c
         /\ dialErr' = e
         /\ hsub' = IF e THEN "ret" ELSE "check"
    /\ closes' = 0
    /\ resp' = "none"
    /\ UNCHANGED <<ServiceServerStatus, hpc, hlog, written, nreq, mvars, svars>>

\* resp, err := healthpb.NewHealthClient(conn).Check(...)
ProbeCheck ==
    /\ hpc \in {"infra", "cni"}
    /\ hsub = "check"
    /\ \E r \in ServingStatuses \cup {"error"} : resp' = r
    /\ hsub' = "ret"
    /\ UNCHANGED <<ServiceServerStatus, hpc, conn, dialErr, closes, hlog, written,
                   nreq, mvars, svars>>

\* mutant: the probe result no longer stops the handler
C11_Mut_NoShortCircuit(de, r) == TRUE

\* mutant: only NOT_SERVING counts as unhealthy
C12_Mut_UnknownIsHealthy(de, r) == ~de /\ r \notin {"NOT_SERVING", "error"}

\* the value checkGrpcServerStatus returns:
\* false on a dial error, false on a Check error, else resp.Status == SERVING
Healthy(de, r) == ~de /\ r = "SERVING"

\* the check that follows a healthy probe in getCheck
NextCheck(c) == IF c = "infra" THEN "cni" ELSE "flag"

\* mutant: the connection is closed on the paths past the dial only
C19_Mut_CloseOnlyAfterDial(c, de) == c # "nil" /\ ~de

\* the deferred function of checkGrpcServerStatus: if conn == nil { return }
MustClose(c, de) == c # "nil"

\* checkGrpcServerStatus returns: the deferred function closes a non-nil conn,
\* and getCheck writes 500 and returns when the probe is not ok, else goes on
\* to its next check
ProbeReturn ==
    /\ hpc \in {"infra", "cni"}
    /\ hsub = "ret"
    /\ IF MustClose(conn, dialErr)
       THEN conn' = "closed" /\ closes' = closes + 1
       ELSE UNCHANGED <<conn, closes>>
    /\ hlog' = Append(hlog, [check |-> hpc, dialErr |-> dialErr, seen |-> resp,
                             ok |-> Healthy(dialErr, resp), conn |-> conn,
                             closed |-> closes'])
    /\ IF Healthy(dialErr, resp)
       THEN /\ hpc' = NextCheck(hpc)
            /\ hsub' = IF NextCheck(hpc) = "flag" THEN "-" ELSE "dial"
            /\ UNCHANGED written
       ELSE /\ written' = Append(written, StatusInternalServerError)
            /\ hpc' = "done"
            /\ hsub' = "-"
    /\ UNCHANGED <<ServiceServerStatus, dialErr, resp, nreq, mvars, svars>>

\* mutant: the services server check always passes
C10_Mut_FlagIgnored == TRUE

\* checkServicesServerStatus: types.ServiceServerStatus == types.ServerStatusOK
checkServicesServerStatus == ServiceServerStatus = ServerStatusOK

\* the third check of getCheck and the final w.WriteHeader
CheckFlag ==
    /\ hpc = "flag"
    /\ hlog' = Append(hlog, [check |-> "flag", dialErr |-> FALSE,
                             seen |-> ServiceServerStatus,
                             ok |-> checkServicesServerStatus, conn |-> "nil",
                             closed |-> 0])
    /\ written' = Append(written, IF checkServicesServerStatus
                                  THEN StatusOK
                                  ELSE StatusInternalServerError)
    /\ hpc' = "done"
    /\ UNCHANGED <<ServiceServerStatus, hsub, conn, dialErr, resp, closes, nreq,
                   mvars, svars>>

\* the services server (elsewhere in the process) changes its status flag
SetStatus ==
    /\ \E v \in ServerStatuses \ {ServiceServerStatus} : ServiceServerStatus' = v
    /\ UNCHANGED <<hpc, hsub, conn, dialErr, resp, closes, hlog, written, nreq,
                   mvars, svars>>


\* ======================================================================
\* Health server lifecycle: Start, serve, StopServer
\* ======================================================================
\* go func() { if err := s.serve(); ... }()
StartSpawn ==
    /\ spc = "init"
    /\ spc' = "wait"
    /\ gpc' = "spawned"
    /\ UNCHANGED <<tomb, srv, lasRet, serveRet, warned, shutdowns, shutdownRet,
                   startRet, inflight, mvars, hvars>>

\* somebody kills the tomb: t.Dying() is closed from now on
Kill ==
    /\ tomb = "alive"
    /\ tomb' = "dying"
    /\ UNCHANGED <<spc, gpc, srv, lasRet, serveRet, warned, shutdowns, shutdownRet,
                   startRet, inflight, mvars, hvars>>

\* err := s.srv.ListenAndServe(): on a server already shut down it returns
\* http.ErrServerClosed at once; else it fails to listen, or serves
ListenAndServe ==
    /\ gpc = "spawned"
    /\ \/ /\ srv = "closed"
          /\ lasRet' = ErrServerClosed
          /\ gpc' = "lasReturned"
          /\ UNCHANGED srv
       \/ /\ srv = "new"
          /\ \E e \in ServeErrors \cup {"nil"} : lasRet' = e
          /\ srv' = "failed"
          /\ gpc' = "lasReturned"
       \/ /\ srv = "new"
          /\ srv' = "serving"
          /\ gpc' = "listening"
          /\ UNCHANGED lasRet
    /\ UNCHANGED <<tomb, spc, serveRet, warned, shutdowns, shutdownRet, startRet,
                   inflight, mvars, hvars>>

\* the blocked ListenAndServe returns: http.ErrServerClosed once Shutdown was
\* called, another error when serving breaks
ListenAndServeReturns ==
    /\ gpc = "listening"
    /\ \/ /\ srv = "closed"
          /\ lasRet' = ErrServerClosed
          /\ UNCHANGED srv
       \/ /\ srv = "serving"
          /\ \E e \in ServeErrors \cup {"nil"} : lasRet' = e
          /\ srv' = "failed"
    /\ gpc' = "lasReturned"
    /\ UNCHANGED <<tomb, spc, serveRet, warned, shutdowns, shutdownRet, startRet,
                   inflight, mvars, hvars>>

\* the serving server accepts a connection, and finishes one; a server that
\* was shut down accepts no more
Accept ==
    /\ srv = "serving"
    /\ inflight < MaxInflight
    /\ inflight' = inflight + 1
    /\ UNCHANGED <<tomb, spc, gpc, srv, lasRet, serveRet, warned, shutdowns,
                   shutdownRet, startRet, mvars, hvars>>

Finish ==
    /\ inflight > 0
    /\ inflight' = inflight - 1
    /\ UNCHANGED <<tomb, spc, gpc, srv, lasRet, serveRet, warned, shutdowns,
                   shutdownRet, startRet, mvars, hvars>>

\* mutant: the server-closed error is returned like any other
C17_Mut_ClosedIsError(e) == IF e # "nil" THEN e ELSE "nil"

\* serve: errors.Is(err, http.ErrServerClosed) -> nil; err != nil -> err; nil
serveResult(e) ==
    IF e = ErrServerClosed THEN "nil"
    ELSE IF e # "nil" THEN e
    ELSE "nil"

\* serve returns to the goroutine of Start, which warns on an error
ServeReturns ==
    /\ gpc = "lasReturned"
    /\ serveRet' = serveResult(lasRet)
    /\ warned' = (serveResult(lasRet) # "nil")
    /\ gpc' = "done"
    /\ UNCHANGED <<tomb, spc, srv, lasRet, shutdowns, shutdownRet, startRet,
                   inflight, mvars, hvars>>

\* mutant: Start does not wait for the tomb
C16_Mut_NoWait == TRUE

\* <-t.Dying()
Dying == tomb = "dying"

\* Start gets past <-t.Dying() and StopServer calls
\* s.srv.Shutdown(ctx) with ctx bound by the 5 s timeout
StopServer ==
    /\ spc = "wait"
    /\ Dying
    /\ shutdowns' = Append(shutdowns, ShutdownTimeout)
    /\ srv' = "closed"
    /\ spc' = "stopping"
    /\ UNCHANGED <<tomb, gpc, lasRet, serveRet, warned, shutdownRet, startRet,
                   inflight, mvars, hvars>>

\* Shutdown returns: nil once no connection is in flight, the context's error
\* (which StopServer logs) when the deadline comes first; StopServer returns
\* and Start returns nil
StartReturns ==
    /\ spc = "stopping"
    /\ \E r \in ShutdownResults :
         /\ r = "nil" => inflight = 0
         /\ shutdownRet' = r
    /\ startRet' = "nil"
    /\ spc' = "returned"
    /\ UNCHANGED <<tomb, gpc, srv, lasRet, serveRet, warned, shutdowns, inflight,
                   mvars, hvars>>

Next ==
    \/ \E p \in procs, r \in Requests : Invoke(p, r)
    \/ \E p \in procs : GetNS(p)
    \/ \E p \in procs : LinkByName(p)
    \/ \E p \in procs : LinkSetDown(p)
    \/ \E p \in procs : LinkSetMTU(p)
    \/ \E p \in procs : LinkSetNsFd(p)
    \/ \E p \in procs : WithNetNSPath(p)
    \/ \E p \in procs : LinkSetName(p)
    \/ \E p \in procs : ReLinkByName(p)
    \/ \E p \in procs : setLinkAddress(p)
    \/ \E p \in procs : LinkSetUp(p)
    \/ \E p \in procs : setupPodRoute(p)
    \/ \E p \in procs : LeaveNs(p)

\* DoSriovNetwork invoked by one caller
Spec == Init /\ [][Next]_vars

\* ---- two callers, each with its own interface and its own target namespace
ConcSrc(p) == IF p = 1 THEN "vf0" ELSE "vf1"
ConcTarget(p) == IF p = 1 THEN "ns1" ELSE "ns2"
Own(p) == IF p = 1 THEN "d1" ELSE "d2"

ConcDevs ==
    [d \in Devs |->
       [ns |-> HostNs, name |-> IF d = "d1" THEN "vf0" ELSE "vf1", up |-> TRUE,
        mtu |-> HostMtu, addrs |-> {}, routes |-> {}]]

\* one address and one route each: both bulk steps run in every invocation
ConcRequests(p) ==
    [netns : {ConcTarget(p)}, src : {ConcSrc(p)}, name : PodNames, mtu : ReqMtus,
     ips : {<<1>>}, routes : {<<1>>}]

ConcInit ==
    /\ procs = {1, 2}
    /\ dev = ConcDevs
    /\ Quiet

\* each caller invokes DoSriovNetwork once
ConcInvoke(p, r) ==
    /\ pc[p] = "idle"
    /\ Invoke(p, r)

ConcNext ==
    \/ \E p \in procs : \E r \in ConcRequests(p) : ConcInvoke(p, r)
    \/ \E p \in procs : GetNS(p)
    \/ \E p \in procs : LinkByName(p)
    \/ \E p \in procs : LinkSetDown(p)
    \/ \E p \in procs : LinkSetMTU(p)
    \/ \E p \in procs : LinkSetNsFd(p)
    \/ \E p \in procs : WithNetNSPath(p)
    \/ \E p \in procs : LinkSetName(p)
    \/ \E p \in procs : ReLinkByName(p)
    \/ \E p \in procs : setLinkAddress(p)
    \/ \E p \in procs : LinkSetUp(p)
    \/ \E p \in procs : setupPodRoute(p)
    \/ \E p \in procs : LeaveNs(p)

\* DoSriovNetwork invoked by two callers at once, their steps interleaved
ConcSpec == ConcInit /\ [][ConcNext]_vars

HealthNext ==
    \/ Request
    \/ ProbeDial
    \/ ProbeCheck
    \/ ProbeReturn
    \/ CheckFlag
    \/ SetStatus

\* the /check handler serving requests while the status flag changes
HealthSpec == Init /\ [][HealthNext]_vars

ServerNext ==
    \/ StartSpawn
    \/ Kill
    \/ ListenAndServe
    \/ ListenAndServeReturns
    \/ ServeReturns
    \/ Accept
    \/ Finish
    \/ StopServer
    \/ StartReturns

\* Start and its goroutine: both are scheduled, and a Shutdown bound by a
\* deadline returns; nothing obliges anybody to kill the tomb
ServerSpec ==
    /\ Init
    /\ [][ServerNext]_vars
    /\ WF_vars(StartSpawn)
    /\ WF_vars(StopServer)
    /\ WF_vars(StartReturns)
    /\ WF_vars(ListenAndServe)
    /\ WF_vars(ServeReturns)

\* ======================================================================
\* Properties of DoSriovNetwork
\* ======================================================================
IsPrefix(s, t) == Len(s) <= Len(t) /\ \A i \in 1..Len(s) : s[i] = t[i]

Repeat(x, n) == [i \in 1..n |-> x]

\* the kernel operations of an invocation, without the entering and leaving of
\* the namespace context
KernelCalls(p) ==
    SelectSeq(calls[p], LAMBDA c : c.op \notin {"WithNetNSPath", "LeaveNs"})

OpsOf(s) == [i \in 1..Len(s) |-> s[i].op]

\* the ten steps in the order the claim gives them, for one request
Plan(r) ==
    <<"GetNS", "LinkByName", "LinkSetDown">>
    \o (IF r.mtu > 0 THEN <<"LinkSetMTU">> ELSE << >>)
    \o <<"LinkSetNsFd", "LinkSetName", "ReLinkByName">>
    \o Repeat("AddrAdd", Len(r.ips))
    \o <<"LinkSetUp">>
    \o Repeat("RouteAdd", Len(r.routes))

Issued(p, op) == \E i \in 1..Len(calls[p]) : calls[p][i].op = op
Succeeded(p, op) == \E i \in 1..Len(calls[p]) : calls[p][i].op = op /\ calls[p][i].ok

\* C1: the kernel operations of an invocation are issued in the order
\* GetNS, LinkByName, LinkSetDown, LinkSetMTU (only if mtu > 0), LinkSetNsFd,
\* LinkSetName, LinkByName again, AddrAdd per address, LinkSetUp, RouteAdd per
\* route; every operation before a failing one has succeeded, the failing
\* one is the last one issued, and a run without failure issues them all.
C1_FixedOrderFirstFailureHalts ==
    \A p \in procs :
        LET k == KernelCalls(p) IN
        /\ IsPrefix(OpsOf(k), Plan(req[p]))
        /\ \A i \in 1..Len(k) : ~k[i].ok => i = Len(k)
        /\ (pc[p] = "done" /\ failed[p] \notin {"none", "WithNetNSPath"}) =>
               /\ Len(k) > 0
               /\ k[Len(k)].op = failed[p]
               /\ ~k[Len(k)].ok
               /\ err[p] # NoErr
        /\ (pc[p] = "done" /\ failed[p] = "WithNetNSPath") =>
               /\ k[Len(k)].op = "LinkSetNsFd"
               /\ k[Len(k)].ok
        /\ (pc[p] = "done" /\ failed[p] = "none") =>
               /\ OpsOf(k) = Plan(req[p])
               /\ \A i \in 1..Len(k) : k[i].ok

\* an invocation with MTU and addresses whose set-up step failed
C1_Witness ==
    \E p \in procs :
        /\ pc[p] = "done"
        /\ failed[p] = "LinkSetUp"
        /\ req[p].mtu > 0
        /\ Len(req[p].ips) > 0
        /\ Succeeded(p, "AddrAdd")

ConfigOps == {"AddrAdd", "LinkSetUp", "RouteAdd"}

C3_NoMutationWhenNamespaceUnresolved ==
    \A p \in procs :
        /\ (pc[p] = "done" /\ req[p].netns \notin NetNs) => failed[p] = "GetNS"
        /\ failed[p] = "GetNS" =>
              /\ pc[p] = "done"
              /\ err[p] # NoErr
              /\ OpsOf(calls[p]) = <<"GetNS">>
              /\ linkObj[p] = NoLink
              /\ nn[p] = NoNs
              /\ dev = dev0[p]

\* a request naming a namespace path that does not exist has returned
C3_Witness ==
    \E p \in procs :
        pc[p] = "done" /\ req[p].netns \notin NetNs /\ failed[p] = "GetNS"

AfterMove == {"WithNetNSPath", "LinkSetName", "ReLinkByName", "AddrAdd",
              "LinkSetUp", "RouteAdd"}

\* C4: nothing is rolled back.  Once the move has succeeded the device stays
\* in the target namespace; when a later step fails every effect of the
\* successful calls is still in place at the return and nothing but the steps
\* of the sequence was issued; a failed set-up leaves the device renamed, with
\* every address applied, down, in the target namespace and not in the host's.
C4_NoRollback ==
    \A p \in procs :
        LET d == linkObj[p].dev
            k == KernelCalls(p) IN
        /\ Succeeded(p, "LinkSetNsFd") =>
              /\ dev[d].ns = nn[p]
              /\ dev[d].ns # HostNs
        /\ (pc[p] = "done" /\ failed[p] \in AfterMove) =>
              /\ err[p] # NoErr
              /\ dev[d].ns = nn[p]
              /\ d \notin ByName(HostNs, req[p].src)
              /\ IsPrefix(OpsOf(k), Plan(req[p]))
              /\ Succeeded(p, "LinkSetMTU") => dev[d].mtu = req[p].mtu
              /\ Succeeded(p, "LinkSetName") => dev[d].name = req[p].name
              /\ \A i \in 1..Len(k) :
                    (k[i].op = "AddrAdd" /\ k[i].ok) =>
                        req[p].ips[k[i].index + 1] \in dev[d].addrs
              /\ \A i \in 1..Len(k) :
                    (k[i].op = "RouteAdd" /\ k[i].ok) =>
                        req[p].routes[k[i].index + 1] \in dev[d].routes
              /\ dev[d].up = Succeeded(p, "LinkSetUp")
        /\ (pc[p] = "done" /\ failed[p] = "LinkSetUp") =>
              /\ dev[d].ns = nn[p]
              /\ dev[d].ns # HostNs
              /\ dev[d].name = req[p].name
              /\ \A i \in 1..Len(req[p].ips) : req[p].ips[i] \in dev[d].addrs
              /\ ~dev[d].up

\* the set-up step failed after addresses had been applied
C4_Witness ==
    \E p \in procs :
        /\ pc[p] = "done"
        /\ failed[p] = "LinkSetUp"
        /\ Len(req[p].ips) = MaxAddrs
        /\ dev[linkObj[p].dev].addrs # {}

AllOk(p) == \A i \in 1..Len(calls[p]) : calls[p][i].ok

\* C5: a request with no addresses and no routes, all of whose calls succeed,
\* returns nil and leaves the device in the target namespace, under the
\* desired name, administratively up.
C5_SuccessLeavesInterfaceUp ==
    \A p \in procs :
        (/\ pc[p] = "done"
         /\ Len(req[p].ips) = 0
         /\ Len(req[p].routes) = 0
         /\ AllOk(p)) =>
            /\ err[p] = NoErr
            /\ failed[p] = "none"
            /\ linkObj[p].dev \in Devs
            /\ req[p].netns \in NetNs
            /\ dev[linkObj[p].dev].ns = req[p].netns
            /\ dev[linkObj[p].dev].name = req[p].name
            /\ dev[linkObj[p].dev].up
            /\ dev0[p][linkObj[p].dev].ns = HostNs
            /\ dev0[p][linkObj[p].dev].name = req[p].src

\* such a request has returned nil
C5_Witness ==
    \E p \in procs :
        /\ pc[p] = "done"
        /\ Len(req[p].ips) = 0
        /\ Len(req[p].routes) = 0
        /\ AllOk(p)
        /\ err[p] = NoErr
        /\ req[p].name # req[p].src

\* C6: with mtu = 0 no LinkSetMTU is issued and no device's MTU differs from
\* what it was when the invocation started; with mtu > 0 LinkSetMTU is issued
\* at most once, right after the successful LinkSetDown, and the move is
\* issued only right after the successful LinkSetMTU.
C6_MtuOnlyWhenPositive ==
    \A p \in procs :
        LET k == calls[p] IN
        /\ req[p].mtu = 0 =>
              /\ ~Issued(p, "LinkSetMTU")
              /\ pc[p] # "idle" => \A d \in Devs : dev[d].mtu = dev0[p][d].mtu
        /\ req[p].mtu > 0 =>
              /\ Cardinality({i \in 1..Len(k) : k[i].op = "LinkSetMTU"}) <= 1
              /\ \A i \in 1..Len(k) :
                    k[i].op = "LinkSetMTU" =>
                        /\ i > 1
                        /\ k[i - 1].op = "LinkSetDown"
                        /\ k[i - 1].ok
              /\ \A i \in 1..Len(k) :
                    k[i].op = "LinkSetNsFd" =>
                        /\ i > 1
                        /\ k[i - 1].op = "LinkSetMTU"
                        /\ k[i - 1].ok
              /\ Succeeded(p, "LinkSetMTU") =>
                    dev[linkObj[p].dev].mtu = req[p].mtu

\* a migration without MTU has succeeded
C6_Witness ==
    \E p \in procs :
        /\ pc[p] = "done"
        /\ req[p].mtu = 0
        /\ err[p] = NoErr
        /\ dev[linkObj[p].dev].ns # HostNs
        /\ dev[linkObj[p].dev].mtu = HostMtu

\* C7: after an invocation that returned nil, the next invocation with the
\* same request issues nothing beyond the namespace and interface
\* resolutions, changes no device, and returns an error; unless the namespace
\* resolution itself fails, it is the interface resolution that fails, with
\* the link-not-found error.
C7_SecondRunFailsAtResolution ==
    \A p \in procs :
        (last[p].run /\ last[p].err = NoErr /\ pc[p] # "idle") =>
            /\ dev = dev0[p]
            /\ IsPrefix(OpsOf(calls[p]), <<"GetNS", "LinkByName">>)
            /\ pc[p] = "done" =>
                  /\ err[p] # NoErr
                  /\ failed[p] \in {"GetNS", "LinkByName"}
                  /\ Succeeded(p, "GetNS") =>
                        /\ failed[p] = "LinkByName"
                        /\ err[p] = RawErr("LinkNotFound")

\* the second invocation has failed at the interface resolution
C7_Witness ==
    \E p \in procs :
        /\ last[p].run
        /\ last[p].err = NoErr
        /\ pc[p] = "done"
        /\ failed[p] = "LinkByName"

\* C8 as claimed: the returned error alone tells the failed step: two
\* invocations that return the same error failed at the same step.
C8_ErrorIdentifiesStep ==
    \A p \in procs :
        (pc[p] = "done" /\ err[p] # NoErr /\ last[p].run /\ last[p].err = err[p]) =>
            last[p].failed = failed[p]

InTarget == {"LinkSetName", "ReLinkByName", "setLinkAddress", "LinkSetUp",
             "setupPodRoute"}
InTargetOps == {"LinkSetName", "ReLinkByName", "AddrAdd", "LinkSetUp", "RouteAdd"}

\* C9: the calling thread is bound to the target namespace exactly while the
\* invocation is between entering WithNetNSPath and leaving it, the rename,
\* re-resolve, address, set-up and route calls are the calls issued under that
\* binding, the binding is made at most once per invocation, and whenever the
\* function has returned the thread is bound to the namespace it started in.
C9_NamespaceBindingRestored ==
    \A p \in procs :
        LET k == calls[p] IN
        /\ pc[p] \in InTarget \cup {"leave"} <=> ctx[p] # HostNs
        /\ pc[p] \in InTarget \cup {"leave"} => ctx[p] = req[p].netns
        /\ pc[p] \in {"idle", "done"} => ctx[p] = HostNs
        /\ Cardinality({i \in 1..Len(k) : k[i].op = "WithNetNSPath"}) <= 1
        /\ \A i \in 1..Len(k) :
              /\ k[i].op \in InTargetOps =>
                    /\ k[i].ctx = req[p].netns
                    /\ k[i].ctx # HostNs
              /\ k[i].op \notin InTargetOps \cup {"LeaveNs"} => k[i].ctx = HostNs
        /\ (pc[p] = "done" /\ Succeeded(p, "WithNetNSPath")) =>
              /\ k[Len(k)].op = "LeaveNs"
              /\ Cardinality({i \in 1..Len(k) : k[i].op = "LeaveNs"}) = 1

\* an invocation has returned an error raised under the binding
C9_Witness ==
    \E p \in procs :
        /\ pc[p] = "done"
        /\ failed[p] \in {"LinkSetName", "AddrAdd", "LinkSetUp", "RouteAdd"}
        /\ ctx[p] = HostNs

\* ======================================================================
\* Properties of the health server
\* ======================================================================
Seen(c) == {i \in 1..Len(hlog) : hlog[i].check = c}

ProbePassed(c) ==
    \E i \in Seen(c) : ~hlog[i].dialErr /\ hlog[i].seen = "SERVING"

FlagPassed == \E i \in Seen("flag") : hlog[i].seen = "OK"

\* C10: nothing is written before a request is decided, and a decided
\* request has exactly one status code written: 200 when the infra manager
\* probe dialled and saw SERVING, the CNI server probe dialled and saw SERVING
\* and the status flag read OK, and 500 in every other case.
C10_OkIffAllChecksPass ==
    /\ hpc \notin {"idle", "done"} => written = << >>
    /\ hpc = "done" =>
          /\ Len(written) = 1
          /\ written[1] \in {StatusOK, StatusInternalServerError}
          /\ written[1] = StatusOK <=>
                (ProbePassed("infra") /\ ProbePassed("cni") /\ FlagPassed)

\* both probes were healthy and the flag read was not OK
C10_Witness ==
    /\ hpc = "done"
    /\ ProbePassed("infra")
    /\ ProbePassed("cni")
    /\ ~FlagPassed
    /\ written = <<StatusInternalServerError>>

CheckOrder == <<"infra", "cni", "flag">>

EntryPassed(e) ==
    IF e.check = "flag" THEN e.seen = "OK" ELSE ~e.dialErr /\ e.seen = "SERVING"

\* C11: the checks of a request are performed in the order infra manager
\* probe, CNI server probe, status flag; a check that does not pass is the
\* last one performed: after a failed infra probe neither the CNI probe nor
\* the flag read happens, after a failed CNI probe the flag read does not.
C11_FixedOrderShortCircuit ==
    /\ IsPrefix([i \in 1..Len(hlog) |-> hlog[i].check], CheckOrder)
    /\ \A i \in 1..Len(hlog) : ~EntryPassed(hlog[i]) => i = Len(hlog) /\ hpc = "done"
    /\ hpc = "infra" => hlog = << >>
    /\ hpc = "cni" => Len(hlog) = 1 /\ EntryPassed(hlog[1])
    /\ hpc = "flag" => Len(hlog) = 2 /\ EntryPassed(hlog[2])
    /\ hpc = "done" =>
          /\ Len(hlog) >= 1
          /\ Len(hlog) < 3 => ~EntryPassed(hlog[Len(hlog)])

\* the infra probe passed and the CNI probe failed: the flag was not read
C11_Witness ==
    /\ hpc = "done"
    /\ Len(hlog) = 2
    /\ EntryPassed(hlog[1])
    /\ ~EntryPassed(hlog[2])
    /\ Seen("flag") = {}

Probes == {i \in 1..Len(hlog) : hlog[i].check \in {"infra", "cni"}}

\* C12: checkGrpcServerStatus returns true exactly when the dial returned no
\* error, the Check call returned no error and the status is SERVING; after
\* a dial error the Check call is not made; a dial error, a Check error,
\* NOT_SERVING, UNKNOWN and SERVICE_UNKNOWN all return false, and the
\* handler answers a false probe with 500.
C12_HealthyOnlyWhenServing ==
    \A i \in Probes :
        LET e == hlog[i] IN
        /\ e.ok <=> (~e.dialErr /\ e.seen = "SERVING")
        /\ e.dialErr => e.seen = "none" /\ ~e.ok
        /\ ~e.dialErr => e.seen \in ServingStatuses \cup {"error"}
        /\ e.seen \in {"error", "NOT_SERVING", "UNKNOWN", "SERVICE_UNKNOWN"} => ~e.ok
        /\ ~e.ok => written = <<StatusInternalServerError>>

\* a probe that dialled and saw UNKNOWN has returned
C12_Witness ==
    \E i \in Probes : ~hlog[i].dialErr /\ hlog[i].seen = "UNKNOWN" /\ ~hlog[i].ok

\* C19: a probe that got a connection from the dial has closed it exactly
\* once when it returns, whatever the dial error, the Check error or the
\* status were, and not before; a probe that got no connection closes nothing.
C19_ConnectionClosedOnce ==
    /\ \A i \in Probes :
          /\ hlog[i].conn = "open" => hlog[i].closed = 1
          /\ hlog[i].conn = "nil" => hlog[i].closed = 0 /\ hlog[i].dialErr
    /\ (hpc \in {"infra", "cni"} /\ hsub \in {"check", "ret"}) =>
          /\ closes = 0
          /\ conn # "closed"
          /\ hsub = "check" => conn = "open"
    /\ (hpc \in {"flag", "done"} \/ (hpc = "cni" /\ hsub = "dial")) =>
          /\ conn \in {"nil", "closed"}
          /\ closes = IF conn = "closed" THEN 1 ELSE 0

\* a dial that returned both a connection and an error: the probe closed it
C19_Witness ==
    \E i \in Probes :
        hlog[i].dialErr /\ hlog[i].conn = "open" /\ hlog[i].closed = 1

CallsOf(p, op) == SelectSeq(calls[p], LAMBDA c : c.op = op)

\* the calls of one bulk step: entries 0, 1, 2, ... in order, each attempted
\* once, only the last of them possibly failing
InListOrder(s) ==
    \A j \in 1..Len(s) : s[j].index = j - 1 /\ (~s[j].ok => j = Len(s))

OnceOps == {"GetNS", "LinkByName", "LinkSetDown", "LinkSetMTU", "LinkSetNsFd",
            "WithNetNSPath", "LinkSetName", "ReLinkByName", "LinkSetUp"}

\* C15: nothing is retried.  In one invocation each of the namespace
\* resolution, the interface resolutions, set down, set MTU, the move, the
\* rename and set up is issued at most once, every list entry is attempted at
\* most once, and a call that failed is followed by no call of the same
\* operation (nor any other kernel operation) before the function returns.
C15_NoStepRetried ==
    \A p \in procs :
        LET k == calls[p] IN
        /\ \A op \in OnceOps :
              Cardinality({i \in 1..Len(k) : k[i].op = op}) <= 1
        /\ \A i, j \in 1..Len(k) :
              (i < j /\ k[i].op = k[j].op /\ k[i].index = k[j].index) => FALSE
        /\ \A i, j \in 1..Len(k) :
              (i < j /\ ~k[i].ok) => k[j].op = "LeaveNs"
        /\ failed[p] # "none" => pc[p] \in {"done", "leave"}

\* a set-down that failed and returned
C15_Witness ==
    \E p \in procs :
        /\ pc[p] = "done"
        /\ failed[p] = "LinkSetDown"
        /\ Cardinality({i \in 1..Len(calls[p]) : calls[p][i].op = "LinkSetDown"}) = 1

\* C18 as claimed: whenever DoSriovNetwork is not running, no namespace
\* handle it opened is still open.
C18_NsHandleReleased ==
    \A p \in procs : pc[p] \in {"idle", "done"} => nsOpen[p] = 0

Migrating(p) == linkObj[p].dev \in Devs

\* C20: the device of a migration is administratively down from the
\* successful set-down until the set-up: it is down when it enters the target
\* namespace, it is up inside the target namespace only after the rename, the
\* re-resolution and every address assignment succeeded, and it carries a
\* route of the request only while it is up.
C20_DownFromQuiesceToSetUp ==
    \A p \in procs :
        Migrating(p) =>
            LET d == linkObj[p].dev IN
            /\ (Succeeded(p, "LinkSetDown") /\ ~Succeeded(p, "LinkSetUp")) =>
                  ~dev[d].up
            /\ (Succeeded(p, "LinkSetNsFd") /\ pc[p] = "WithNetNSPath") =>
                  ~dev[d].up /\ dev[d].ns = nn[p]
            /\ (Succeeded(p, "LinkSetNsFd") /\ dev[d].up) =>
                  /\ dev[d].ns = nn[p]
                  /\ Succeeded(p, "LinkSetName")
                  /\ Succeeded(p, "ReLinkByName")
                  /\ Len(CallsOf(p, "AddrAdd")) = Len(req[p].ips)
                  /\ \A i \in 1..Len(calls[p]) :
                        calls[p][i].op = "AddrAdd" => calls[p][i].ok
                  /\ \A j \in 1..Len(req[p].ips) : req[p].ips[j] \in dev[d].addrs
            /\ dev[d].routes # {} => dev[d].up /\ Succeeded(p, "LinkSetUp")

\* the device has crossed into the target namespace and is not yet set up
C20_Witness ==
    \E p \in procs :
        /\ Migrating(p)
        /\ dev0[p][linkObj[p].dev].up
        /\ Succeeded(p, "LinkSetNsFd")
        /\ pc[p] = "LinkSetUp"
        /\ ~dev[linkObj[p].dev].up

\* ======================================================================
\* Properties of the health server lifecycle
\* ======================================================================
StartSafe ==
    /\ Len(shutdowns) <= 1
    /\ shutdowns # << >> =>
          /\ tomb = "dying"
          /\ spc \in {"stopping", "returned"}
          /\ shutdowns = <<ShutdownTimeout>>
    /\ spc \in {"stopping", "returned"} => shutdowns # << >>
    /\ spc # "returned" => startRet = "none" /\ shutdownRet = "none"
    /\ spc = "returned" =>
          /\ tomb = "dying"
          /\ startRet = "nil"
          /\ shutdownRet \in ShutdownResults

\* C16: Start does not return, and does not call Shutdown, while the tomb is
\* alive; once the tomb is dying it calls Shutdown exactly once, with a
\* context bound by the timeout, and then returns nil, wherever the serving
\* goroutine is; and from the moment the tomb is dying Start eventually
\* returns.
C16_StartStopsOnDying ==
    /\ []StartSafe
    /\ (tomb = "dying") ~> (spc = "returned")

\* Start has returned while the goroutine had not yet called ListenAndServe
C16_Witness ==
    /\ spc = "returned"
    /\ gpc = "spawned"
    /\ shutdowns = <<ShutdownTimeout>>
    /\ startRet = "nil"

\* C17: serve returns nil when ListenAndServe returned the server-closed
\* error or nil, and returns the error itself when ListenAndServe returned
\* any other error; only then does the goroutine log its warning.
C17_ServeTreatsClosedAsClean ==
    /\ gpc # "done" => serveRet = "none" /\ ~warned
    /\ gpc = "done" =>
          /\ lasRet = ErrServerClosed => serveRet = "nil"
          /\ lasRet = "nil" => serveRet = "nil"
          /\ lasRet \in ServeErrors => serveRet = lasRet
          /\ lasRet \in ServeErrors \cup {"nil", ErrServerClosed}
          /\ warned <=> lasRet \in ServeErrors

\* serve has returned nil after a shutdown ended ListenAndServe
C17_Witness ==
    /\ gpc = "done"
    /\ lasRet = ErrServerClosed
    /\ serveRet = "nil"
    /\ srv = "closed"

\* ---------------------------------------------------------------- C14
\* What a caller's own successful calls do to its interface when nothing else
\* touches it: the state a run of this caller alone leaves behind.
AloneState(p) ==
    LET r == req[p]
        d0 == ConcDevs[Own(p)]
        okAt(op) == {calls[p][i].index :
                       i \in {j \in 1..Len(calls[p]) :
                                calls[p][j].op = op /\ calls[p][j].ok}} IN
    [ns |-> IF Succeeded(p, "LinkSetNsFd") THEN r.netns ELSE d0.ns,
     name |-> IF Succeeded(p, "LinkSetName") THEN r.name ELSE d0.name,
     up |-> IF Succeeded(p, "LinkSetUp") THEN TRUE
            ELSE IF Succeeded(p, "LinkSetDown") THEN FALSE ELSE d0.up,
     mtu |-> IF Succeeded(p, "LinkSetMTU") THEN r.mtu ELSE d0.mtu,
     addrs |-> {r.ips[k + 1] : k \in okAt("AddrAdd")},
     routes |-> {r.routes[k + 1] : k \in okAt("RouteAdd")}]

\* The calls of a caller run alone: a prefix of its plan that stops at the
\* first failure, and a failure is one the kernel injected, never one the
\* state of the devices forced.
AloneResult(p) ==
    LET k == KernelCalls(p)
        c == calls[p] IN
    /\ IsPrefix(OpsOf(k), Plan(req[p]))
    /\ \A i \in 1..Len(c) :
          ~c[i].ok => /\ failed[p] = c[i].op
                      /\ err[p] # NoErr
                      /\ \A j \in (i + 1)..Len(c) : c[j].op = "LeaveNs"
    /\ err[p].cause \in Errnos \cup {"nil"}
    /\ (err[p] = NoErr) <=> AllOk(p)
    /\ (pc[p] = "done") =>
          /\ ctx[p] = HostNs
          /\ (err[p] = NoErr) => OpsOf(k) = Plan(req[p])

\* C14: two concurrent invocations that move different interfaces into
\* different target namespaces are independent: under every interleaving of
\* their steps each caller gets the result, and its interface the state, that
\* its own request and its own calls determine, as in a run of its own.
C14_ConcurrentCallersIndependent ==
    \A p \in procs :
        pc[p] # "idle" =>
            /\ dev[Own(p)] = AloneState(p)
            /\ AloneResult(p)

\* caller 1 has finished successfully while caller 2, invoked before caller 1
\* moved its interface, is still configuring its own in the other namespace
C14_Witness ==
    /\ procs = {1, 2}
    /\ pc[1] = "done"
    /\ err[1] = NoErr
    /\ dev["d1"].ns = "ns1"
    /\ dev["d1"].up
    /\ pc[2] = "setupPodRoute"
    /\ ctx[2] = "ns2"
    /\ dev0[2]["d1"].ns = HostNs
    /\ dev["d2"].ns = "ns2"
    /\ dev["d2"].name = dev["d1"].name
====
